---- MODULE Spec2Model ----
(***************************************************************************)
(* Model of the "Youtube frame capture" userscript (src/index.js, main     *)
(* script, lines 1-1292): the frame extractor, the screenshot strip, the   *)
(* navigation guard (mutation observer) and the UI visibility toggle.      *)
(*                                                                         *)
(* The browser's event loop is modelled explicitly.  A macrotask (a key    *)
(* press, a click, a mutation batch made by the page, an address change,   *)
(* an image decode, a timer) runs only when the microtask queue `micro` is *)
(* empty.  The continuation of every `await` and the delivery of mutation  *)
(* records to the observers are microtasks, run in FIFO order.             *)
(***************************************************************************)
EXTENDS Integers, Sequences, FiniteSets, TLC

\* ---------------------------------------------------------------- bounds
MaxCaptures == 2   \* captures whose frame is handed on to the strip
NumOverlays == 1   \* overlay selectors modelled (the first is the reference)
NumVideos   == 2   \* distinct video ids
MaxFetch    == 1   \* thumbnail decodes in flight
MaxTimers   == 1   \* save timers pending
MaxCopies   == 1   \* clipboard copies in flight
MaxTick     == 1   \* playback position, in ticks
MaxW        == 1   \* native video width
MaxH        == 1   \* native video height
MaxCW       == 1   \* displayed (client) width
FMaxW       == 6   \* native width, frame-extractor specification
FMaxH       == 6   \* native height, frame-extractor specification
FMaxCW      == 6   \* displayed width, frame-extractor specification
UNumOverlays == 3  \* overlay selectors, UI-visibility specification
DMaxLen     == 6   \* characters of a duration string, duration specification
NMaxLen     == 3   \* characters of a title or a frame-time, file-name specification
NMaxW       == 3   \* frame width, file-name specification

\* ------------------------------------------------------------- encodings
TicksPerSec == 2   \* currentTime is fractional: two ticks make one second
NaN         == -1  \* Math.round(0 / 0)
Infinity    == -2  \* Math.round(x / 0), x > 0

Videos == 1..NumVideos

\* An address is <<page, v, t>>: the watch page of video v with an optional
\* t=<seconds>s parameter (t = -1 when absent), or some other page.
NoT       == -1
NoHref    == <<"", 0, NoT>>
OtherPage == <<"other", 0, NoT>>
WatchUrl(v, t) == <<"watch", v, t>>

NoThumb == 0       \* metaData.thumbnail = {} (no image)

VARIABLES
    location,      \* location.href
    metaData,      \* the metaData global
    page,          \* what the page's DOM offers: title, duration and error texts
    strip,         \* #screenshot-strip: [exists, children, count]
    ui,            \* overlay elements: "absent", or the inline style.display:
                   \* "shown" (''), "hidden" ('none'), "other" (any other value)
    currentTime,   \* the value the script assigned to video.currentTime last, in ticks
    micro,         \* microtask queue
    waiters,       \* entries whose waitForElement observer is still connected
    fetches,       \* thumbnail decodes in flight
    timers,        \* ids of entries with a pending 100 ms save timer
    copies,        \* ids of entries with a clipboard copy in flight
    nreq,          \* captures so far whose frame was handed on to the strip
    pristine,      \* history: no removal, address change or teardown so far
    tornHere,      \* history: onUrlChange has run since the address changed last
    last           \* history: the step taken last and its inputs

vars == <<location, metaData, page, strip, ui, currentTime, micro, waiters, fetches,
          timers, copies, nreq, pristine, tornHere, last>>

\* -------------------------------------------------------------- helpers
isWatchUrl(url) == url[1] = "watch"

parseQueryParams(url) == [v |-> url[2], t |-> url[3]]

setShortUrl(id) == <<"https://youtu.be/", id>>

VideoDims ==
    { d \in (0..MaxW) \X (0..MaxH) \X (0..MaxCW) : (d[1] = 0) <=> (d[2] = 0) }

\* Math.round of the quotient num / den of two non-negative integers.
MathRound(num, den) ==
    IF den = 0
    THEN IF num = 0 THEN NaN ELSE Infinity
    ELSE (2 * num + den) \div (2 * den)

MathRoundDown(num, den) ==
    IF den = 0
    THEN IF num = 0 THEN NaN ELSE Infinity
    ELSE num \div den

getResizedHeight(videoWidth, videoHeight, clientWidth) ==
    MathRound(videoHeight * clientWidth, videoWidth)

captureFrameFloor(videoWidth, videoHeight, clientWidth, time, isResized) ==
    [ width  |-> IF isResized THEN clientWidth ELSE videoWidth,
      height |-> IF isResized
                 THEN MathRoundDown(videoHeight * clientWidth, videoWidth)
                 ELSE videoHeight,
      time   |-> time ]

captureFrame(videoWidth, videoHeight, clientWidth, time, isResized) ==
    [ width  |-> IF isResized THEN clientWidth ELSE videoWidth,
      height |-> IF isResized
                 THEN getResizedHeight(videoWidth, videoHeight, clientWidth)
                 ELSE videoHeight,
      time   |-> time ]

\* Math.trunc of a playback position.
MathTrunc(time) == time \div TicksPerSec

\* The image container built by addImageToStrip before its await.  The URL of
\* the time overlay is location.href with t replaced, so the entry keeps the
\* video id of the address it was built at.
\* An active overlay control of an entry: its text and its cursor.
Control(text, cursor) == [text |-> text, cursor |-> cursor]

NoEntry == [id |-> 0, kind |-> "none", vid |-> 0, sec |-> 0, saved |-> FALSE,
            save |-> Control("", ""), copy |-> Control("", "")]

createImageContainer(id, kind, time) ==
    [ id     |-> id,
      kind   |-> kind,
      vid    |-> location[2],
      sec    |-> MathTrunc(time),
      saved  |-> FALSE,
      save   |-> Control("Save", "pointer"),
      copy   |-> Control("Copy", "pointer") ]

\* ---------------------------------------------------------------- strings
\* A string is the sequence of its characters.
Digits == <<"0", "1", "2", "3", "4", "5", "6", "7", "8", "9">>

IsDigit(c) == \E d \in 1..10 : Digits[d] = c

DigitVal(c) == (CHOOSE d \in 1..10 : Digits[d] = c) - 1

RECURSIVE ParseDigits(_, _)
ParseDigits(str, acc) ==
    IF str = <<>> \/ ~IsDigit(Head(str)) THEN acc
    ELSE ParseDigits(Tail(str), acc * 10 + DigitVal(Head(str)))

\* parseInt: the value of the leading decimal digits, NaN when there are none.
parseInt(str) ==
    IF str = <<>> \/ ~IsDigit(Head(str)) THEN NaN ELSE ParseDigits(str, 0)

\* `${n}` for a non-negative integer.
RECURSIVE NumToStr(_)
NumToStr(n) ==
    IF n < 10 THEN <<Digits[n + 1]>>
    ELSE NumToStr(n \div 10) \o <<Digits[(n % 10) + 1]>>

\* String.prototype.split with a one-character separator.
RECURSIVE Split(_, _)
Split(str, sep) ==
    IF \A i \in 1..Len(str) : str[i] # sep THEN <<str>>
    ELSE LET i == CHOOSE k \in 1..Len(str) :
                      str[k] = sep /\ \A j \in 1..(k - 1) : str[j] # sep
         IN  <<SubSeq(str, 1, i - 1)>> \o Split(SubSeq(str, i + 1, Len(str)), sep)

Reverse(seq) == [i \in 1..Len(seq) |-> seq[Len(seq) + 1 - i]]

\* Array.prototype.join.
RECURSIVE Join(_, _)
Join(parts, sep) ==
    IF parts = <<>> THEN <<>>
    ELSE IF Len(parts) = 1 THEN parts[1]
    ELSE parts[1] \o sep \o Join(Tail(parts), sep)

\* timeNotations[idx]; an index past the array gives `undefined`.
timeNotations(idx) ==
    IF idx <= 4 THEN << <<"s">>, <<"m">>, <<"h">>, <<"d">> >>[idx]
    ELSE <<"undefined">>

formatDurationTimeNoReverse(duration) ==
    IF duration = <<>> THEN <<>>
    ELSE LET split    == Split(duration, ":")
             reversed == Reverse(split)
             notated  == [idx \in 1..Len(reversed) |->
                             IF parseInt(reversed[idx]) > 0
                             THEN NumToStr(parseInt(reversed[idx])) \o timeNotations(idx)
                             ELSE <<>>]
             strippedZeroes == SelectSeq(notated, LAMBDA x : x # <<>>)
         IN  Join(strippedZeroes, <<" ">>)

\* parseInt(val) is falsy for NaN and for 0.
formatDurationTime(duration) ==
    IF duration = <<>> THEN <<>>
    ELSE LET split    == Split(duration, ":")
             reversed == Reverse(split)
             notated  == [idx \in 1..Len(reversed) |->
                             IF parseInt(reversed[idx]) > 0
                             THEN NumToStr(parseInt(reversed[idx])) \o timeNotations(idx)
                             ELSE <<>>]
             strippedZeroes == SelectSeq(notated, LAMBDA x : x # <<>>)
         IN  Join(Reverse(strippedZeroes), <<" ">>)

\* String.prototype.replace with a global pattern that matches the
\* characters of `from`, one at a time.
ReplaceAll(str, from, to) ==
    [i \in 1..Len(str) |-> IF str[i] \in from THEN to ELSE str[i]]

\* The characters /\s/ matches, among those of the model's alphabets.
Whitespace == {" ", "\t"}

\* element.getAttribute('frame-time') of an element without the attribute.
NoAttr == <<"null">>

getImageNameDashAll(title, frameTime) ==
    LET videoTime == IF frameTime = NoAttr \/ frameTime = <<>>
                     THEN <<"0", "0", "_", "0", "0">> ELSE frameTime
        videoTitleTextWithTime == title \o <<" ", "-", " ">> \o videoTime
        dashed == ReplaceAll(videoTitleTextWithTime, {"_"}, "-")
        videoTitleTextWithTimeNoSpaces == ReplaceAll(dashed, Whitespace, "_")
    IN  videoTitleTextWithTimeNoSpaces \o <<".", "p", "n", "g">>

\* getImageName, with title the value of metaData.title it reads (after the
\* setTitle() it calls when the title is empty).
getImageName(title, frameTime) ==
    LET videoTime == IF frameTime = NoAttr \/ frameTime = <<>>
                     THEN <<"0", "0", "_", "0", "0">> ELSE frameTime
        videoTimeDashed == ReplaceAll(videoTime, {"_"}, "-")
        videoTitleTextWithTime == title \o <<" ", "-", " ">> \o videoTimeDashed
        videoTitleTextWithTimeNoSpaces ==
            ReplaceAll(videoTitleTextWithTime, Whitespace, "_")
    IN  videoTitleTextWithTimeNoSpaces \o <<".", "p", "n", "g">>

\* ------------------------------------------------------------ microtasks
MOTask          == [type |-> "MO",     e |-> NoEntry, flag |-> FALSE]
AppendTask(e, live) == [type |-> "append", e |-> e, flag |-> live]
InitTask(e, ok) == [type |-> "init",   e |-> e, flag |-> ok]
GsiTask(e, ok)  == [type |-> "gsi",    e |-> e, flag |-> ok]

\* "Queue a mutation observer microtask": at most one is queued at a time.
QueueMO(q) ==
    IF \E i \in 1..Len(q) : q[i].type = "MO" THEN q ELSE Append(q, MOTask)

\* The strip element left the document: continuations that hold a reference
\* to it now append to a detached element.
Detach(q) ==
    [i \in 1..Len(q) |->
        IF q[i].type = "append" THEN [q[i] EXCEPT !.flag = FALSE] ELSE q[i]]

\* ----------------------------------------------------------------- Init
\* No '#screenshot-strip' element is in the document.  exists is what
\* document.querySelector('#screenshot-strip') tells, children the entries of
\* the element it returns, count the number of such elements in the document.
NoStrip == [exists |-> FALSE, children |-> <<>>, count |-> 0]

\* screenshotStrip.remove() on the element querySelector returns.
RemoveStrip(st) ==
    [exists |-> st.count > 1, children |-> <<>>, count |-> st.count - 1]

\* The metaData global as declared; '' is the empty string <<>>, and the
\* empty short_url is <<"", 0>>.
InitialMetaData ==
    [id |-> 0, title |-> <<>>, duration |-> <<>>, href |-> NoHref,
     short_url |-> <<"", 0>>, thumbnail |-> NoThumb, seekingByScript |-> FALSE]

\* The texts the script reads from the page: title is what the first
\* successful title source of setTitle gives (<<>> when none does), duration
\* the text of '.ytp-time-duration' (<<>> when absent), error the text of
\* '#reason' (<<>> when absent).
EmptyPage == [title |-> <<>>, duration |-> <<>>, error |-> <<>>]

Init ==
    /\ location \in {OtherPage} \cup {WatchUrl(v, NoT) : v \in Videos}
    /\ metaData = InitialMetaData
    /\ page = EmptyPage
    /\ strip = NoStrip
    /\ ui = [i \in 1..NumOverlays |-> "absent"]
    /\ currentTime = 0
    /\ micro = <<>>
    /\ waiters = <<>>
    /\ fetches = <<>>
    /\ timers = {}
    /\ copies = {}
    /\ nreq = 0
    /\ pristine = TRUE
    /\ tornHere = FALSE
    /\ last = [op |-> "init", err |-> FALSE]


\* ------------------------------------------------------ navigation guard
\* The guard works on a record g of the globals and DOM parts it touches:
\* md (metaData), fetches, strip, ui, plus what happened: err (an exception
\* left the callback), tore (onUrlChange ran), destroyed (the strip element
\* was removed from the document).
\* What a batch of mutation records holds for updateTitleDuration: title is
\* "title" (a record of the head, the title element or the watch metadata),
\* "legacy" (only a record of '.ytp-title-link') or "none"; duration says
\* whether a record touches '.ytp-time-duration'.
NoMutations == [title |-> "none", duration |-> FALSE]

MutationRecords == [title : {"none", "title", "legacy"}, duration : BOOLEAN]

Globals ==
    [md |-> metaData, fetches |-> fetches, strip |-> strip, ui |-> ui,
     err |-> FALSE, tore |-> FALSE, destroyed |-> FALSE,
     mutations |-> NoMutations]

setDuration(md) == [md EXCEPT !.duration = page.duration]

\* setTitle leaves metaData.title as it is when no source gives a title.
setTitle(md) == IF page.title # <<>> THEN [md EXCEPT !.title = page.title] ELSE md

\* setDefaultThumbnail(0) up to its await: the decode of the first candidate
\* URL of the current metaData.id is in flight.
setDefaultThumbnail(g) ==
    [g EXCEPT !.fetches = Append(@, [vid |-> g.md.id, attempt |-> 0])]

updateIdUrlsThumbnail(g) ==
    LET id == parseQueryParams(location).v
    IN  setDefaultThumbnail(
            [g EXCEPT !.md = [setTitle(setDuration(@)) EXCEPT
                                 !.href = location,
                                 !.id = id,
                                 !.short_url = setShortUrl(id)]])

\* elements[0].style throws a TypeError when the first selector matches
\* nothing.
toggleThrows(u) == u[1] = "absent"

toggleUIVisibilityEach(u, restore) ==
    [i \in DOMAIN u |->
        IF u[i] = "absent" THEN "absent"
        ELSE IF u[i] # "shown" \/ restore THEN "shown" ELSE "hidden"]

\* `invisible` is elements[0].style.display as a condition: true for every
\* non-empty display value.
toggleUIVisibility(u, restore) ==
    LET invisible == u[1] # "shown"
        state == IF invisible \/ restore THEN "shown" ELSE "hidden"
    IN  [i \in DOMAIN u |-> IF u[i] = "absent" THEN "absent" ELSE state]

destroyStrip(g) ==
    IF ~g.strip.exists THEN g
    ELSE [g EXCEPT !.strip = RemoveStrip(@),
                   !.destroyed = TRUE]

onUrlChange(g) ==
    LET g1 == [destroyStrip(g) EXCEPT !.tore = TRUE]
    IN  IF toggleThrows(g1.ui)
        THEN [g1 EXCEPT !.err = TRUE]
        ELSE updateIdUrlsThumbnail(
                 [g1 EXCEPT !.ui = toggleUIVisibility(g1.ui, TRUE)])

\* updateTitleDuration over the records of the batch; it is not reached when
\* an exception has left doAfterMutation before.
updateTitleDuration(g) ==
    IF g.err THEN g
    ELSE LET m1 == IF g.mutations.duration THEN setDuration(g.md) ELSE g.md
             m2 == IF \/ g.mutations.title = "title"
                       \/ (g.mutations.title = "legacy" /\ m1.title = <<>>)
                    THEN setTitle(m1) ELSE m1
         IN  [g EXCEPT !.md = m2]

doAfterMutationAlways(g) ==
    IF ~isWatchUrl(location) THEN g
    ELSE LET g1 == IF g.md.href = NoHref THEN updateIdUrlsThumbnail(g) ELSE g
         IN  updateTitleDuration(
                 IF ~g1.md.seekingByScript
                 THEN onUrlChange(g1)
                 ELSE [g1 EXCEPT !.md.href = location,
                                 !.md.seekingByScript = FALSE])

doAfterMutationFlagTeardown(g) ==
    IF ~isWatchUrl(location) THEN g
    ELSE LET g1 == IF g.md.href = NoHref THEN updateIdUrlsThumbnail(g) ELSE g
         IN  updateTitleDuration(
                 IF g1.md.href # location
                 THEN [onUrlChange(g1) EXCEPT !.md.seekingByScript = FALSE]
                 ELSE IF g1.md.seekingByScript
                      THEN [g1 EXCEPT !.md.href = location,
                                      !.md.seekingByScript = FALSE]
                      ELSE g1)

doAfterMutationAnyPage(g) ==
    LET g1 == IF g.md.href = NoHref THEN updateIdUrlsThumbnail(g) ELSE g
    IN  updateTitleDuration(
            IF g1.md.href # location /\ ~g1.md.seekingByScript
            THEN onUrlChange(g1)
            ELSE IF g1.md.seekingByScript
                 THEN [g1 EXCEPT !.md.href = location,
                                 !.md.seekingByScript = FALSE]
                 ELSE g1)

doAfterMutation(g) ==
    IF ~isWatchUrl(location) THEN g
    ELSE LET g1 == IF g.md.href = NoHref THEN updateIdUrlsThumbnail(g) ELSE g
         IN  updateTitleDuration(
                 IF g1.md.href # location /\ ~g1.md.seekingByScript
                 THEN onUrlChange(g1)
                 ELSE IF g1.md.seekingByScript
                      THEN [g1 EXCEPT !.md.href = location,
                                      !.md.seekingByScript = FALSE]
                      ELSE g1)

\* Delivery of the queued mutation records: first the observer started by
\* startDOMObserver (doAfterMutation), then the waitForElement observers in
\* the order they were created.  A removal made by the guard queues a new
\* delivery; an observer of waitForElement resolves only if the strip is in
\* the document when its callback runs.
NotifyMutationObservers(mutations) ==
    /\ micro # <<>>
    /\ Head(micro).type = "MO"
    /\ LET g     == doAfterMutation([Globals EXCEPT !.mutations = mutations])
           rest  == IF g.destroyed THEN QueueMO(Detach(Tail(micro))) ELSE Tail(micro)
       IN  /\ metaData' = g.md
           /\ fetches' = g.fetches
           /\ strip' = g.strip
           /\ ui' = g.ui
           /\ IF g.strip.exists
              THEN /\ micro' = rest \o [i \in 1..Len(waiters) |-> AppendTask(waiters[i], TRUE)]
                   /\ waiters' = <<>>
              ELSE /\ micro' = rest
                   /\ waiters' = waiters
           /\ pristine' = (pristine /\ ~g.tore)
           /\ tornHere' = (tornHere \/ g.tore)
           /\ last' = [op |-> "doAfterMutation", err |-> g.err, tore |-> g.tore,
                       watch |-> isWatchUrl(location),
                       changed |-> metaData.href # location,
                       flagged |-> metaData.seekingByScript,
                       refAbsent |-> toggleThrows(ui)]
    /\ UNCHANGED <<page, location, currentTime, timers, copies, nreq>>

\* ----------------------------------------------------------- strip store
appendChildAtHead(children, e) == <<e>> \o children

appendChild(children, e) == Append(children, e)

\* addImageToStrip after `await waitForElement`: stripContainer.appendChild.
\* An append to a detached strip element is not observed and shows nowhere.
AppendContinuation ==
    /\ micro # <<>>
    /\ Head(micro).type = "append"
    /\ LET task == Head(micro)
       IN  IF task.flag
           THEN /\ strip' = [strip EXCEPT !.children = appendChild(@, task.e)]
                /\ micro' = QueueMO(Tail(micro))
           ELSE /\ strip' = strip
                /\ micro' = Tail(micro)
    /\ last' = [op |-> "append", err |-> FALSE, live |-> Head(micro).flag]
    /\ UNCHANGED <<page, location, metaData, ui, currentTime, waiters, fetches,
                   timers, copies, nreq, pristine, tornHere>>

\* addImageToStrip up to its await: waitForElement resolves at once when the
\* strip is in the document, else it connects an observer.
addImageToStrip(q, w, e) ==
    IF strip.exists
    THEN [micro |-> Append(q, AppendTask(e, TRUE)), waiters |-> w]
    ELSE [micro |-> q, waiters |-> Append(w, e)]

\* initScreenshotStrip after `await addDefaultThumbnail()`: it returns, or
\* rethrows the rejection, which settles the promise getScreenshotImage awaits.
InitContinuation ==
    /\ micro # <<>>
    /\ Head(micro).type = "init"
    /\ micro' = Append(Tail(micro), GsiTask(Head(micro).e, Head(micro).flag))
    /\ last' = [op |-> "init-cont", err |-> FALSE]
    /\ UNCHANGED <<page, location, metaData, strip, ui, currentTime, waiters,
                   fetches, timers, copies, nreq, pristine, tornHere>>

\* getScreenshotImage after `await initScreenshotStrip()`: addImageToStrip(frame),
\* or an unhandled rejection when initScreenshotStrip rejected.
GsiContinuation ==
    /\ micro # <<>>
    /\ Head(micro).type = "gsi"
    /\ LET task == Head(micro)
           r == addImageToStrip(Tail(micro), waiters, task.e)
       IN  IF task.flag
           THEN /\ micro' = r.micro
                /\ waiters' = r.waiters
           ELSE /\ micro' = Tail(micro)
                /\ waiters' = waiters
    /\ last' = [op |-> "gsi-cont", err |-> ~Head(micro).flag]
    /\ UNCHANGED <<page, location, metaData, strip, ui, currentTime, fetches,
                   timers, copies, nreq, pristine, tornHere>>


\* ------------------------------------------------------------ key presses
\* logKey returns at once off the watch page, before the first guard run and
\* while focus is in the search or the comment input.
logKeyAnyFocus(inInput) ==
    \/ ~isWatchUrl(location)
    \/ metaData.href = NoHref

logKeyIgnores(inInput) ==
    \/ ~isWatchUrl(location)
    \/ metaData.href = NoHref
    \/ inInput

\* inInput is isInInputField(), which logKey reads only after its first test
\* has passed.
KeyFocus(inInput) ==
    (~isWatchUrl(location) \/ metaData.href = NoHref) => ~inInput

initNeededAlways(st) == TRUE

\* `!screenshotStripExists` of getScreenshotImage; the test and the
\* createScreenshotStrip() it guards run with no await between them.
initNeeded(st) == ~st.exists

\* createScreenshotStrip puts a new, empty strip element right behind the
\* player, in front of any other: it is the one querySelector returns.
createScreenshotStrip(st) ==
    [exists |-> TRUE, children |-> <<>>, count |-> st.count + 1]

\* Inputs that the handler never reads on the path it takes are fixed, so that
\* one step is not enumerated once per unread input.
CanonicalInputs(isResized, inInput, video, player, d, time) ==
    LET ignored == logKeyIgnores(inInput)
        noFrame == ignored \/ ~video
    IN  /\ KeyFocus(inInput)
        /\ ignored => video
        /\ noFrame => (~isResized /\ d = <<0, 0, 0>> /\ time = 0)
        /\ (noFrame \/ ~initNeeded(strip)) => player

\* Key '[' (isResized = FALSE) or ']' (isResized = TRUE): logKey and
\* getScreenshotImage up to its first await.  video: '.video-stream' is in the
\* document; player: '#primary-inner div#player' is; d: the video's
\* videoWidth, videoHeight and clientWidth; time: its currentTime (playback
\* moves on between events, so the position read is an input).
getScreenshotImage(isResized, inInput, video, player, d, time) ==
    /\ micro = <<>>
    /\ nreq < MaxCaptures
    /\ CanonicalInputs(isResized, inInput, video, player, d, time)
    /\ LET frame == captureFrame(d[1], d[2], d[3], time, isResized)
           id    == nreq + 1
           e     == createImageContainer(id, "frame", frame.time)
           thumb == createImageContainer(0 - id, "thumb", 0)
           hasThumb == metaData.thumbnail # NoThumb
           ignored  == logKeyIgnores(inInput)
           notReady == ~ignored /\ video /\ frame.width = 0
           throws   == ~ignored /\ (~video \/ (~notReady /\ initNeeded(strip) /\ ~player))
           made     == ~ignored /\ video /\ ~notReady /\ initNeeded(strip) /\ player
       IN  /\ IF ignored \/ throws \/ notReady
              THEN UNCHANGED <<strip, micro, nreq>>
              ELSE /\ nreq' = id
                   /\ IF ~initNeeded(strip)
                      THEN /\ micro' = addImageToStrip(micro, waiters, e).micro
                           /\ strip' = strip
                      ELSE /\ strip' = createScreenshotStrip(strip)
                           /\ micro' =
                                IF hasThumb
                                THEN <<MOTask, AppendTask(thumb, TRUE), InitTask(e, TRUE)>>
                                ELSE <<MOTask, InitTask(e, FALSE)>>
           /\ last' = [op |-> "capture", err |-> throws, ignored |-> ignored,
                       inInput |-> inInput,
                       isResized |-> ~ignored /\ video /\ isResized,
                       nativeZero |-> ~ignored /\ video /\ d[1] = 0,
                       made |-> made]
    /\ UNCHANGED <<page, location, metaData, ui, currentTime, waiters, fetches, timers, copies,
                   pristine, tornHere>>

\* Key 'p' or 'P': toggleUIVisibility().
KeyToggleUI(inInput) ==
    /\ micro = <<>>
    /\ KeyFocus(inInput)
    /\ LET ignored == logKeyIgnores(inInput)
           throws  == ~ignored /\ toggleThrows(ui)
       IN  /\ ui' = IF ignored \/ throws THEN ui ELSE toggleUIVisibility(ui, FALSE)
           /\ last' = [op |-> "toggle", err |-> throws, ignored |-> ignored,
                       inInput |-> inInput, before |-> ui]
    /\ UNCHANGED <<page, location, metaData, strip, currentTime, micro, waiters,
                   fetches, timers, copies, nreq, pristine, tornHere>>

\* `${metaData.title} | ${duration} | ${metaData.short_url}`
Separator == <<" ", "|", " ">>

ShortUrlText(short_url) == <<short_url[1]>> \o NumToStr(short_url[2])

LinkText(title, duration, short_url) ==
    title \o Separator \o duration \o Separator \o ShortUrlText(short_url)

NoShortUrl == <<"", 0>>

copyVideoLinkRawDuration(md) ==
    IF md.short_url = NoShortUrl
    THEN [md |-> md, wrote |-> FALSE, written |-> <<>>]
    ELSE LET m1       == IF md.title = <<>> THEN setTitle(md) ELSE md
             duration == m1.duration
         IN  IF m1.title = <<>> /\ duration = <<>> /\ page.error # <<>>
             THEN [md |-> m1, wrote |-> FALSE, written |-> <<>>]
             ELSE [md |-> m1, wrote |-> TRUE,
                   written |-> LinkText(m1.title, duration, m1.short_url)]

\* copyVideoLink: the metaData it leaves, whether it calls
\* navigator.clipboard.writeText, and the text it passes.
copyVideoLink(md) ==
    IF md.short_url = NoShortUrl
    THEN [md |-> md, wrote |-> FALSE, written |-> <<>>]
    ELSE LET m1       == IF md.title = <<>> THEN setTitle(md) ELSE md
             duration == formatDurationTime(m1.duration)
         IN  IF m1.title = <<>> /\ duration = <<>> /\ page.error # <<>>
             THEN [md |-> m1, wrote |-> FALSE, written |-> <<>>]
             ELSE [md |-> m1, wrote |-> TRUE,
                   written |-> LinkText(m1.title, duration, m1.short_url)]

\* Key "'": copyVideoLink().
KeyCopyLink(inInput) ==
    /\ micro = <<>>
    /\ KeyFocus(inInput)
    /\ LET ignored == logKeyIgnores(inInput)
           r       == copyVideoLink(metaData)
       IN  /\ metaData' = IF ignored THEN metaData ELSE r.md
           /\ last' = [op |-> "copylink", err |-> FALSE, ignored |-> ignored,
                       inInput |-> inInput,
                       wrote |-> ~ignored /\ r.wrote,
                       written |-> IF ignored THEN <<>> ELSE r.written]
    /\ UNCHANGED <<page, location, strip, ui, currentTime, micro, waiters,
                   fetches, timers, copies, nreq, pristine, tornHere>>

\* Key 'u' or 'U' (consoleGlobals only logs), and every key logKey has no
\* branch for.
KeyOther(inInput) ==
    /\ micro = <<>>
    /\ KeyFocus(inInput)
    /\ last' = [op |-> "key", err |-> FALSE,
                ignored |-> logKeyIgnores(inInput), inInput |-> inInput]
    /\ UNCHANGED <<page, location, metaData, strip, ui, currentTime, micro,
                   waiters, fetches, timers, copies, nreq, pristine, tornHere>>

\* ----------------------------------------------------- clicks on an entry
RemoveAt(children, i) ==
    SubSeq(children, 1, i - 1) \o SubSeq(children, i + 1, Len(children))

removeKeepsContainer(st, i) ==
    [st EXCEPT !.children = RemoveAt(@, i)]

removeImage(st, i) ==
    IF Len(st.children) = 1
    THEN RemoveStrip(st)
    ELSE [st EXCEPT !.children = RemoveAt(@, i)]

removeImageEventHandler(i) ==
    /\ micro = <<>>
    /\ strip.exists
    /\ i \in 1..Len(strip.children)
    /\ strip' = removeImage(strip, i)
    /\ micro' = QueueMO(micro)
    /\ pristine' = FALSE
    /\ last' = [op |-> "remove", err |-> FALSE, idx |-> i]
    /\ UNCHANGED tornHere
    /\ UNCHANGED <<page, location, metaData, ui, currentTime, waiters, fetches,
                   timers, copies, nreq>>

\* Click on Save.  fails: the try block raises (the title lookup, or the
\* synthetic click on the link, throws).  The handler first sets the control
\* to 'Saving...' with the wait cursor; on an error the catch block sets it
\* back and shows 'FAILED!', else the mark-saved step is deferred by 100 ms.
\* Replacing the control's text is a childList mutation inside the document.
\* The transient status overlay of showStatusMessage is recorded as the
\* message the step has shown (last.shown) and on which entry.
saveImageEventHandler(i, fails) ==
    /\ micro = <<>>
    /\ strip.exists
    /\ i \in 1..Len(strip.children)
    /\ IF fails
       THEN /\ strip' = [strip EXCEPT !.children[i].save = Control("Save", "pointer")]
            /\ timers' = timers
       ELSE /\ Cardinality(timers \cup {strip.children[i].id}) <= MaxTimers
            /\ strip' = [strip EXCEPT !.children[i].save = Control("Saving...", "wait")]
            /\ timers' = timers \cup {strip.children[i].id}
    /\ micro' = QueueMO(micro)
    /\ last' = [op |-> "save", err |-> FALSE, idx |-> i, fails |-> fails,
                shown |-> IF fails THEN "FAILED!" ELSE ""]
    /\ UNCHANGED <<page, location, metaData, ui, currentTime, waiters, fetches,
                   copies, nreq, pristine, tornHere>>

IndexOf(children, id) ==
    CHOOSE i \in 1..Len(children) : children[i].id = id

InStrip(id) ==
    strip.exists /\ \E i \in 1..Len(strip.children) : strip.children[i].id = id

updateContainerAfterSaveFlips(id) ==
    /\ micro = <<>>
    /\ id \in timers
    /\ timers' = timers \ {id}
    /\ IF InStrip(id)
       THEN /\ strip' = [strip EXCEPT
                    !.children[IndexOf(strip.children, id)].saved = ~@,
                    !.children[IndexOf(strip.children, id)].save = Control("Save", "pointer")]
            /\ micro' = QueueMO(micro)
       ELSE UNCHANGED <<strip, micro>>
    /\ last' = [op |-> "saved", err |-> ~InStrip(id), id |-> id,
                shown |-> IF InStrip(id) THEN "SAVED!" ELSE ""]
    /\ UNCHANGED <<page, location, metaData, ui, currentTime, waiters, fetches,
                   copies, nreq, pristine, tornHere>>

\* The save timer: updateContainerAfterSave reads linkElement.offsetParent,
\* which is null once the entry has left the document; the TypeError ends the
\* callback.  Else the entry is marked saved, the control is set back to
\* 'Save' and 'SAVED!' is shown.
updateContainerAfterSave(id) ==
    /\ micro = <<>>
    /\ id \in timers
    /\ timers' = timers \ {id}
    /\ IF InStrip(id)
       THEN /\ strip' = [strip EXCEPT
                    !.children[IndexOf(strip.children, id)].saved = TRUE,
                    !.children[IndexOf(strip.children, id)].save = Control("Save", "pointer")]
            /\ micro' = QueueMO(micro)
       ELSE UNCHANGED <<strip, micro>>
    /\ last' = [op |-> "saved", err |-> ~InStrip(id), id |-> id,
                shown |-> IF InStrip(id) THEN "SAVED!" ELSE ""]
    /\ UNCHANGED <<page, location, metaData, ui, currentTime, waiters, fetches,
                   copies, nreq, pristine, tornHere>>

\* Click on Copy, up to the first await: the control shows 'Copying...' with
\* the wait cursor, and the image is loaded, converted and written to the
\* clipboard by later tasks.
copyImageEventHandler(i) ==
    /\ micro = <<>>
    /\ strip.exists
    /\ i \in 1..Len(strip.children)
    /\ Cardinality(copies \cup {strip.children[i].id}) <= MaxCopies
    /\ strip' = [strip EXCEPT !.children[i].copy = Control("Copying...", "wait")]
    /\ copies' = copies \cup {strip.children[i].id}
    /\ micro' = QueueMO(micro)
    /\ last' = [op |-> "copy", err |-> FALSE, idx |-> i]
    /\ UNCHANGED <<page, location, metaData, ui, currentTime, waiters, fetches,
                   timers, nreq, pristine, tornHere>>

\* How the awaited chain of copyImageEventHandler ends: the clipboard write
\* succeeded ("copied"), writeBlobToClipboard caught its rejection and
\* returned false ("rejected"), or the preparation of the blob threw and the
\* handler's catch block ran ("thrown").
CopyOutcomes == {"copied", "rejected", "thrown"}

copyOverlayStuck(e, outcome) ==
    IF outcome = "copied" THEN [e EXCEPT !.copy = Control("Copy", "pointer")] ELSE e

\* What the rest of the handler writes on the entry it was clicked on.
copyOverlayAfter(e, outcome) ==
    [e EXCEPT !.copy = Control("Copy", "pointer")]

copyStatusMessage(outcome) ==
    IF outcome = "copied" THEN "COPIED!" ELSE "COPY FAILED!"

\* The rest of copyImageEventHandler.  The handler holds references to the
\* control and the container: on an entry that has left the document its
\* writes show nowhere.
CopySettles(id, outcome) ==
    /\ micro = <<>>
    /\ id \in copies
    /\ copies' = copies \ {id}
    /\ IF InStrip(id)
       THEN /\ strip' = [strip EXCEPT !.children[IndexOf(strip.children, id)] =
                              copyOverlayAfter(@, outcome)]
            /\ micro' = QueueMO(micro)
       ELSE UNCHANGED <<strip, micro>>
    /\ last' = [op |-> "copied", err |-> FALSE, id |-> id, outcome |-> outcome,
                live |-> InStrip(id), shown |-> copyStatusMessage(outcome)]
    /\ UNCHANGED <<page, location, metaData, ui, currentTime, waiters, fetches,
                   timers, nreq, pristine, tornHere>>

\* The image of createImageElement fires 'error': its listener logs and the
\* promise is neither resolved nor rejected, so the handler awaiting it never
\* runs on.
ImageLoadError(id) ==
    /\ micro = <<>>
    /\ id \in copies
    /\ copies' = copies \ {id}
    /\ last' = [op |-> "load-error", err |-> FALSE, id |-> id, live |-> InStrip(id)]
    /\ UNCHANGED <<page, location, metaData, strip, ui, currentTime, micro, waiters,
                   fetches, timers, nreq, pristine, tornHere>>

\* Click on an entry's time overlay.
TimeOverlayClick(i, video) ==
    /\ micro = <<>>
    /\ strip.exists
    /\ i \in 1..Len(strip.children)
    /\ Len(fetches) < MaxFetch
    /\ LET e == strip.children[i]
       IN  /\ location' = WatchUrl(e.vid, e.sec)
           /\ metaData' = [metaData EXCEPT !.seekingByScript = video]
           /\ currentTime' = IF video THEN e.sec * TicksPerSec ELSE currentTime
           /\ last' = [op |-> "seek", err |-> FALSE, idx |-> i, video |-> video]
    /\ pristine' = FALSE
    /\ tornHere' = (tornHere /\ location' = location)
    /\ UNCHANGED <<page, strip, ui, micro, waiters, fetches, timers, copies, nreq>>

\* ------------------------------------------------------------ environment
\* The address changes (SPA navigation by the page or the user).
Navigate(url) ==
    /\ micro = <<>>
    /\ url # location
    /\ Len(fetches) < MaxFetch
    /\ location' = url
    /\ pristine' = FALSE
    /\ tornHere' = FALSE
    /\ last' = [op |-> "env", err |-> FALSE]
    /\ UNCHANGED <<page, metaData, strip, ui, currentTime, micro, waiters, fetches,
                   timers, copies, nreq>>

\* The page changes its own DOM: a mutation batch for the observers.
MutationBatch ==
    /\ micro = <<>>
    /\ micro' = <<MOTask>>
    /\ last' = [op |-> "env", err |-> FALSE]
    /\ UNCHANGED <<page, location, metaData, strip, ui, currentTime, waiters,
                   fetches, timers, copies, nreq, pristine, tornHere>>

\* The page adds or drops an overlay element; a new one is displayed.
OverlayChange(i) ==
    /\ micro = <<>>
    /\ ui' = [ui EXCEPT ![i] = IF @ = "absent" THEN "shown" ELSE "absent"]
    /\ last' = [op |-> "env", err |-> FALSE]
    /\ UNCHANGED <<page, location, metaData, strip, currentTime, micro, waiters,
                   fetches, timers, copies, nreq, pristine, tornHere>>

\* The page rewrites its title, its duration label or its error box; observed
\* says whether the rewrite adds or removes nodes.
Titles    == {<<>>, <<"T">>}
Durations == {<<>>, <<"0", ":", "0", "0">>, <<"1", ":", "0", "2">>}
Errors    == {<<>>, <<"E">>}
PageTexts == [title : Titles, duration : Durations, error : Errors]

PageText(p, observed) ==
    /\ micro = <<>>
    /\ p # page
    /\ page' = p
    /\ micro' = IF observed THEN <<MOTask>> ELSE <<>>
    /\ last' = [op |-> "env", err |-> FALSE]
    /\ UNCHANGED <<location, metaData, strip, ui, currentTime, waiters,
                   fetches, timers, copies, nreq, pristine, tornHere>>

\* The page writes the inline display of an overlay element it owns.
Displays == {"shown", "hidden", "other"}

PageStyle(i, v) ==
    /\ micro = <<>>
    /\ ui[i] # "absent"
    /\ ui[i] # v
    /\ ui' = [ui EXCEPT ![i] = v]
    /\ last' = [op |-> "env", err |-> FALSE]
    /\ UNCHANGED <<page, location, metaData, strip, currentTime, micro, waiters,
                   fetches, timers, copies, nreq, pristine, tornHere>>

\* image.decode() of a pending setDefaultThumbnail settles.  ok: the image
\* decoded; placeholder: its width is 120.
LastAttempt == 2

DecodeSettles(k, ok, placeholder) ==
    /\ micro = <<>>
    /\ k \in 1..Len(fetches)
    /\ LET f == fetches[k]
           others == RemoveAt(fetches, k)
       IN  IF ~ok \/ f.attempt = LastAttempt
           THEN /\ fetches' = others
                /\ metaData' = metaData
           ELSE IF placeholder
           THEN /\ fetches' = [fetches EXCEPT ![k] =
                                  [vid |-> metaData.id, attempt |-> f.attempt + 1]]
                /\ metaData' = metaData
           ELSE /\ fetches' = others
                /\ metaData' = [metaData EXCEPT !.thumbnail = f.vid]
    /\ last' = [op |-> "decode", err |-> ~ok]
    /\ UNCHANGED <<page, location, strip, ui, currentTime, micro, waiters, timers, copies,
                   nreq, pristine, tornHere>>

\* -------------------------------------------------------- specification
Addresses == {OtherPage} \cup {WatchUrl(v, NoT) : v \in Videos}

Next ==
    \/ \E mutations \in MutationRecords : NotifyMutationObservers(mutations)
    \/ AppendContinuation
    \/ InitContinuation
    \/ GsiContinuation
    \/ \E isResized \in BOOLEAN, inInput \in BOOLEAN, video \in BOOLEAN,
          player \in BOOLEAN, d \in VideoDims, time \in 0..MaxTick :
          getScreenshotImage(isResized, inInput, video, player, d, time)
    \/ \E inInput \in BOOLEAN : KeyToggleUI(inInput)
    \/ \E i \in 1..(2 * MaxCaptures) : removeImageEventHandler(i)
    \/ \E i \in 1..(2 * MaxCaptures), video \in BOOLEAN : TimeOverlayClick(i, video)
    \/ \E url \in Addresses : Navigate(url)
    \/ MutationBatch
    \/ \E i \in 1..NumOverlays : OverlayChange(i)
    \/ \E k \in 1..MaxFetch, ok \in BOOLEAN, placeholder \in BOOLEAN :
          DecodeSettles(k, ok, placeholder)

Spec == Init /\ [][Next]_vars

\* The strip with its save control: captures, removals, saves and their
\* timers, under navigation.
NextSave ==
    \/ \E mutations \in MutationRecords : NotifyMutationObservers(mutations)
    \/ AppendContinuation
    \/ InitContinuation
    \/ GsiContinuation
    \/ \E isResized \in BOOLEAN, inInput \in BOOLEAN, video \in BOOLEAN,
          player \in BOOLEAN, d \in VideoDims, time \in 0..MaxTick :
          getScreenshotImage(isResized, inInput, video, player, d, time)
    \/ \E i \in 1..(2 * MaxCaptures) : removeImageEventHandler(i)
    \/ \E i \in 1..(2 * MaxCaptures), fails \in BOOLEAN :
          saveImageEventHandler(i, fails)
    \/ \E id \in (0 - MaxCaptures)..MaxCaptures : updateContainerAfterSave(id)
    \/ \E url \in Addresses : Navigate(url)
    \/ MutationBatch
    \/ OverlayChange(1)
    \/ \E k \in 1..MaxFetch, ok \in BOOLEAN, placeholder \in BOOLEAN :
          DecodeSettles(k, ok, placeholder)

SpecSave == Init /\ [][NextSave]_vars

\* The export controls of the entries: save with its timer and clipboard
\* copy with its completion, among captures and removals on one video.
NextExport ==
    \/ \E mutations \in MutationRecords : NotifyMutationObservers(mutations)
    \/ AppendContinuation
    \/ InitContinuation
    \/ GsiContinuation
    \/ \E isResized \in BOOLEAN, inInput \in BOOLEAN, video \in BOOLEAN,
          player \in BOOLEAN, d \in VideoDims, time \in 0..MaxTick :
          getScreenshotImage(isResized, inInput, video, player, d, time)
    \/ \E i \in 1..(2 * MaxCaptures) : removeImageEventHandler(i)
    \/ \E i \in 1..(2 * MaxCaptures), fails \in BOOLEAN :
          saveImageEventHandler(i, fails)
    \/ \E id \in (0 - MaxCaptures)..MaxCaptures : updateContainerAfterSave(id)
    \/ \E i \in 1..(2 * MaxCaptures) : copyImageEventHandler(i)
    \/ \E id \in (0 - MaxCaptures)..MaxCaptures, outcome \in CopyOutcomes :
          CopySettles(id, outcome)
    \/ \E id \in (0 - MaxCaptures)..MaxCaptures : ImageLoadError(id)
    \/ MutationBatch
    \/ \E k \in 1..MaxFetch, ok \in BOOLEAN, placeholder \in BOOLEAN :
          DecodeSettles(k, ok, placeholder)

SpecExport == Init /\ [][NextExport]_vars

\* The keyboard commands: captures, the UI toggle, the link copy and the
\* other keys, under navigation and timestamp clicks.
NextKeys ==
    \/ \E mutations \in MutationRecords : NotifyMutationObservers(mutations)
    \/ AppendContinuation
    \/ InitContinuation
    \/ GsiContinuation
    \/ \E isResized \in BOOLEAN, inInput \in BOOLEAN, video \in BOOLEAN,
          player \in BOOLEAN, d \in VideoDims, time \in 0..MaxTick :
          getScreenshotImage(isResized, inInput, video, player, d, time)
    \/ \E inInput \in BOOLEAN : KeyToggleUI(inInput)
    \/ \E inInput \in BOOLEAN : KeyCopyLink(inInput)
    \/ \E inInput \in BOOLEAN : KeyOther(inInput)
    \/ \E i \in 1..(2 * MaxCaptures), video \in BOOLEAN : TimeOverlayClick(i, video)
    \/ \E url \in Addresses : Navigate(url)
    \/ MutationBatch
    \/ \E i \in 1..NumOverlays : OverlayChange(i)
    \/ \E k \in 1..MaxFetch, ok \in BOOLEAN, placeholder \in BOOLEAN :
          DecodeSettles(k, ok, placeholder)

SpecKeys == Init /\ [][NextKeys]_vars

\* The link copy over a page whose texts change, under navigation.
NextLink ==
    \/ \E mutations \in MutationRecords : NotifyMutationObservers(mutations)
    \/ \E inInput \in BOOLEAN : KeyCopyLink(inInput)
    \/ \E url \in Addresses : Navigate(url)
    \/ \E p \in PageTexts, observed \in BOOLEAN : PageText(p, observed)
    \/ MutationBatch
    \/ \E i \in 1..NumOverlays : OverlayChange(i)
    \/ \E k \in 1..MaxFetch, ok \in BOOLEAN, placeholder \in BOOLEAN :
          DecodeSettles(k, ok, placeholder)

SpecLink == Init /\ [][NextLink]_vars

\* Captures on one page: no navigation, no removal, no timestamp click.
NextCapture ==
    \/ \E mutations \in MutationRecords : NotifyMutationObservers(mutations)
    \/ AppendContinuation
    \/ InitContinuation
    \/ GsiContinuation
    \/ \E isResized \in BOOLEAN, inInput \in BOOLEAN, video \in BOOLEAN,
          player \in BOOLEAN, d \in VideoDims, time \in 0..MaxTick :
          getScreenshotImage(isResized, inInput, video, player, d, time)
    \/ MutationBatch
    \/ \E i \in 1..NumOverlays : OverlayChange(i)
    \/ \E k \in 1..MaxFetch, ok \in BOOLEAN, placeholder \in BOOLEAN :
          DecodeSettles(k, ok, placeholder)

SpecCapture == Init /\ [][NextCapture]_vars

\* The frame extractor alone: every combination of the video element's
\* properties and the capture mode, then one captureFrame.
FrameDims ==
    { d \in (0..FMaxW) \X (0..FMaxH) \X (0..FMaxCW) : (d[1] = 0) <=> (d[2] = 0) }

InitFrame ==
    /\ location = WatchUrl(1, NoT)
    /\ metaData = InitialMetaData
    /\ page = EmptyPage
    /\ strip = NoStrip
    /\ ui = [i \in 1..NumOverlays |-> "absent"]
    /\ currentTime = 0
    /\ micro = <<>>
    /\ waiters = <<>>
    /\ fetches = <<>>
    /\ timers = {}
    /\ copies = {}
    /\ nreq = 0
    /\ pristine = TRUE
    /\ tornHere = FALSE
    /\ \E d \in FrameDims, isResized \in BOOLEAN :
          last = [op |-> "video", err |-> FALSE, isResized |-> isResized,
                  videoWidth |-> d[1], videoHeight |-> d[2], clientWidth |-> d[3]]

\* captureFrame on the video element, and the test getScreenshotImage makes
\* on its result (`if (!frame.width) return null`).
CaptureFrameStep ==
    /\ last.op = "video"
    /\ LET frame == captureFrame(last.videoWidth, last.videoHeight,
                                 last.clientWidth, 0, last.isResized)
       IN  last' = [op |-> "captureFrame", err |-> FALSE,
                    isResized |-> last.isResized,
                    videoWidth |-> last.videoWidth,
                    videoHeight |-> last.videoHeight,
                    clientWidth |-> last.clientWidth,
                    frame |-> frame,
                    accepted |-> frame.width # 0]
    /\ UNCHANGED <<page, location, metaData, strip, ui, currentTime, micro, waiters,
                   fetches, timers, copies, nreq, pristine, tornHere>>

NextFrame == CaptureFrameStep

SpecFrame == InitFrame /\ [][NextFrame]_vars


\* The UI visibility toggle over several overlay elements, under the guard:
\* key 'p', navigation, and the page adding, dropping and styling overlays.
InitUI ==
    /\ location \in {WatchUrl(v, NoT) : v \in Videos}
    /\ metaData = InitialMetaData
    /\ page = EmptyPage
    /\ strip = NoStrip
    /\ ui = [i \in 1..UNumOverlays |-> "absent"]
    /\ currentTime = 0
    /\ micro = <<>>
    /\ waiters = <<>>
    /\ fetches = <<>>
    /\ timers = {}
    /\ copies = {}
    /\ nreq = 0
    /\ pristine = TRUE
    /\ tornHere = FALSE
    /\ last = [op |-> "init", err |-> FALSE]

NextUI ==
    \/ \E mutations \in MutationRecords : NotifyMutationObservers(mutations)
    \/ \E inInput \in BOOLEAN : KeyToggleUI(inInput)
    \/ \E url \in Addresses : Navigate(url)
    \/ MutationBatch
    \/ \E i \in 1..UNumOverlays : OverlayChange(i)
    \/ \E i \in 1..UNumOverlays, v \in Displays : PageStyle(i, v)
    \/ \E k \in 1..MaxFetch, ok \in BOOLEAN, placeholder \in BOOLEAN :
          DecodeSettles(k, ok, placeholder)

SpecUI == InitUI /\ [][NextUI]_vars


\* formatDurationTime alone: every string of the duration alphabet up to
\* DMaxLen characters, and the string of the function's own comment.
DurationAlphabet == {"0", "1", "2", ":"}

RECURSIVE StringsUpTo(_, _)
StringsUpTo(alphabet, n) ==
    IF n = 0 THEN {<<>>}
    ELSE LET shorter == StringsUpTo(alphabet, n - 1)
         IN  shorter \cup { Append(str, c) : str \in shorter, c \in alphabet }

DurationExample == <<"0", "1", ":", "0", "3", ":", "0", "0", ":", "1", "2">>

InitDuration ==
    /\ location = WatchUrl(1, NoT)
    /\ metaData = InitialMetaData
    /\ page = EmptyPage
    /\ strip = NoStrip
    /\ ui = [i \in 1..NumOverlays |-> "absent"]
    /\ currentTime = 0
    /\ micro = <<>>
    /\ waiters = <<>>
    /\ fetches = <<>>
    /\ timers = {}
    /\ copies = {}
    /\ nreq = 0
    /\ pristine = TRUE
    /\ tornHere = FALSE
    /\ \E str \in StringsUpTo(DurationAlphabet, DMaxLen) \cup {DurationExample} :
          last = [op |-> "duration", err |-> FALSE, duration |-> str]

FormatDurationStep ==
    /\ last.op = "duration"
    /\ last' = [op |-> "formatDurationTime", err |-> FALSE,
                duration |-> last.duration,
                result |-> formatDurationTime(last.duration)]
    /\ UNCHANGED <<page, location, metaData, strip, ui, currentTime, micro, waiters,
                   fetches, timers, copies, nreq, pristine, tornHere>>

NextDuration == FormatDurationStep

SpecDuration == InitDuration /\ [][NextDuration]_vars


\* getImageName alone: every title and frame-time attribute of the alphabets
\* up to NMaxLen characters, the attribute absent, and the title "My Video"
\* with frame-time "01_02"; width is the width of the frame the entry shows.
TitleAlphabet == {"M", " ", "\t", "_"}

FrameTimeAlphabet == {"0", "1", "_"}

TitleExample == <<"M", "y", " ", "V", "i", "d", "e", "o">>

FrameTimeExample == <<"0", "1", "_", "0", "2">>

InitName ==
    /\ location = WatchUrl(1, NoT)
    /\ metaData = InitialMetaData
    /\ page = EmptyPage
    /\ strip = NoStrip
    /\ ui = [i \in 1..NumOverlays |-> "absent"]
    /\ currentTime = 0
    /\ micro = <<>>
    /\ waiters = <<>>
    /\ fetches = <<>>
    /\ timers = {}
    /\ copies = {}
    /\ nreq = 0
    /\ pristine = TRUE
    /\ tornHere = FALSE
    /\ \E title \in StringsUpTo(TitleAlphabet, NMaxLen) \cup {TitleExample},
          frameTime \in StringsUpTo(FrameTimeAlphabet, NMaxLen)
                           \cup {NoAttr, FrameTimeExample},
          width \in 1..NMaxW :
          last = [op |-> "entry", err |-> FALSE, title |-> title,
                  frameTime |-> frameTime, width |-> width]

GetImageNameStep ==
    /\ last.op = "entry"
    /\ last' = [op |-> "getImageName", err |-> FALSE, title |-> last.title,
                frameTime |-> last.frameTime, width |-> last.width,
                name |-> getImageName(last.title, last.frameTime)]
    /\ UNCHANGED <<page, location, metaData, strip, ui, currentTime, micro, waiters,
                   fetches, timers, copies, nreq, pristine, tornHere>>

NextName == GetImageNameStep

SpecName == InitName /\ [][NextName]_vars

\* ------------------------------------------------- hoursMinutesSeconds
\* String.prototype.padStart(n, '0').
RECURSIVE padStart(_, _)
padStart(str, n) == IF Len(str) >= n THEN str ELSE padStart(<<"0">> \o str, n)

hoursMinutesSecondsWrapped(seconds) ==
    LET parts == <<(seconds \div 3600) % 24, (seconds % 3600) \div 60,
                   (seconds % 3600) % 60>>
    IN  Join([i \in 1..3 |-> padStart(NumToStr(parts[i]), 2)], <<":">>)

\* The reduceRight over [3600, 60] builds r => [floor(r / 3600)] followed by
\* [floor((r % 3600) / 60), (r % 3600) % 60]; each part is padded and the
\* parts are joined with ':'.
hoursMinutesSeconds(seconds) ==
    LET parts == <<seconds \div 3600, (seconds % 3600) \div 60,
                   (seconds % 3600) % 60>>
    IN  Join([i \in 1..3 |-> padStart(NumToStr(parts[i]), 2)], <<":">>)

\* timeLink.textContent of createTimeOverlayElement.
timeOverlayText(time) == hoursMinutesSeconds(MathTrunc(time))

\* The frame-time attribute of createSaveOverlayElement.
frameTimeAttribute(time) ==
    Join(Split(hoursMinutesSeconds(MathTrunc(time)), ":"), <<"_">>)

\* Capture times, in ticks: every minute, second and fraction of the hours
\* up to TMaxHours and of some later hours, a day and a hundred hours among
\* them.
TMaxHours == 1

HourSamples == (0..TMaxHours) \cup {9, 10, 23, 24, 25, 99, 100}

CaptureTimes ==
    { ((h * 60 + m) * 60 + sec) * TicksPerSec + f :
          h \in HourSamples, m \in 0..59, sec \in 0..59, f \in 0..(TicksPerSec - 1) }

InitTime ==
    /\ location = WatchUrl(1, NoT)
    /\ metaData = InitialMetaData
    /\ page = EmptyPage
    /\ strip = NoStrip
    /\ ui = [i \in 1..NumOverlays |-> "absent"]
    /\ currentTime = 0
    /\ micro = <<>>
    /\ waiters = <<>>
    /\ fetches = <<>>
    /\ timers = {}
    /\ copies = {}
    /\ nreq = 0
    /\ pristine = TRUE
    /\ tornHere = FALSE
    /\ \E time \in CaptureTimes :
          last = [op |-> "frame", err |-> FALSE, time |-> time]

\* createOverlaysHolder builds the time overlay and the save control of an
\* entry from the frame's time.
OverlaysStep ==
    /\ last.op = "frame"
    /\ last' = [op |-> "overlays", err |-> FALSE, time |-> last.time,
                shown |-> timeOverlayText(last.time),
                frameTime |-> frameTimeAttribute(last.time)]
    /\ UNCHANGED <<page, location, metaData, strip, ui, currentTime, micro, waiters,
                   fetches, timers, copies, nreq, pristine, tornHere>>

NextTime == OverlaysStep

SpecTime == InitTime /\ [][NextTime]_vars


\* ========================================================== properties
Children == strip.children

Pos(children, id) == CHOOSE i \in 1..Len(children) : children[i].id = id

Ids(children) == { children[i].id : i \in 1..Len(children) }

\* The captured frames among the entries, in strip order.
Frames(children) == SelectSeq(children, LAMBDA e : e.kind = "frame")

Quiescent == micro = <<>> /\ waiters = <<>>

CaptureStep == last'.op = "capture" /\ ~last'.ignored

GuardStep == last'.op = "doAfterMutation"

\* C1: a capture request made while the video reports native width 0, in
\* either mode, creates no strip container, schedules no append and leaves
\* the strip's entries as they were.
C1_NotReadyNoMutation ==
    [][(CaptureStep /\ last'.nativeZero)
        => (strip' = strip /\ micro' = micro /\ waiters' = waiters)]_vars

\* C2: with native width > 0 captureFrame returns the native size in
\* full-size mode; in resized mode the width is the displayed width and the
\* height h is nativeHeight * displayedWidth / nativeWidth rounded half up,
\* that is h - 1/2 <= nativeHeight * displayedWidth / nativeWidth < h + 1/2.
C2_ResizeFormula ==
    (last.op = "captureFrame" /\ last.videoWidth > 0) =>
        LET f == last.frame
            x2 == 2 * last.videoHeight * last.clientWidth
        IN  /\ ~last.isResized =>
                (f.width = last.videoWidth /\ f.height = last.videoHeight)
            /\ last.isResized =>
                /\ f.width = last.clientWidth
                /\ (2 * f.height - 1) * last.videoWidth <= x2
                /\ x2 < (2 * f.height + 1) * last.videoWidth

\* C2 witness: a resized capture whose exact height ends in one half, which
\* was rounded up.
C2_Witness ==
    /\ last.op = "captureFrame"
    /\ last.isResized
    /\ last.videoWidth > 0
    /\ 2 * last.videoHeight * last.clientWidth
         = (2 * last.frame.height - 1) * last.videoWidth

\* C3: in a session without removal or navigation, once no append is
\* pending, the captured frames in the strip are exactly the N successful
\* captures requested, in request order.
C3_ExactlyN ==
    (pristine /\ Quiescent) =>
        [i \in 1..Len(Frames(Children)) |-> Frames(Children)[i].id]
            = [i \in 1..nreq |-> i]

\* C4: the captured frames stand in the strip in the order their captures
\* were requested; every step keeps the relative order of the entries that
\* remain and puts new entries behind them.
FramesInRequestOrder ==
    \A i, j \in 1..Len(Children) :
        (i < j /\ Children[i].kind = "frame" /\ Children[j].kind = "frame")
            => Children[i].id < Children[j].id

OrderKept ==
    \A a \in Ids(Children) \cap Ids(strip'.children) :
        /\ \A b \in Ids(Children) \cap Ids(strip'.children) :
              (Pos(Children, a) < Pos(Children, b))
                  <=> (Pos(strip'.children, a) < Pos(strip'.children, b))
        /\ \A c \in Ids(strip'.children) \ Ids(Children) :
              Pos(strip'.children, a) < Pos(strip'.children, c)

C4_CaptureOrder == [][OrderKept /\ FramesInRequestOrder']_vars

\* C4 witness: the frame of the first request waited for a strip across
\* events and was appended to the strip that the second request created; it
\* stands before the second frame.
C4_Witness ==
    /\ last.op = "append"
    /\ Len(Children) = 3
    /\ Children[1].kind = "thumb"
    /\ Children[1].id = 0 - 2
    /\ Children[2].kind = "frame" /\ Children[2].id = 1
    /\ Children[3].kind = "frame" /\ Children[3].id = 2

\* C5: removing the only entry removes the strip container; removing one of
\* several removes just the clicked entry, and the others stay in the
\* container with their saved state and in their relative order.
C5_Remove ==
    [][(last'.op = "remove") =>
        LET i == last'.idx
            gone == Children[i].id
        IN  IF Len(Children) = 1
            THEN ~strip'.exists
            ELSE /\ strip'.exists
                 /\ Len(strip'.children) = Len(Children) - 1
                 /\ gone \notin Ids(strip'.children)
                 /\ \A j \in 1..Len(Children) : j # i =>
                       /\ Children[j].id \in Ids(strip'.children)
                       /\ strip'.children[Pos(strip'.children, Children[j].id)] = Children[j]
                 /\ \A j, k \in 1..Len(Children) : (j # i /\ k # i /\ j < k) =>
                       Pos(strip'.children, Children[j].id)
                           < Pos(strip'.children, Children[k].id)]_vars

\* C5 witness: an entry was removed from a strip of several, and a saved
\* entry is among those that stay.
C5_Witness ==
    /\ last.op = "remove"
    /\ strip.exists
    /\ \E i \in 1..Len(Children) : Children[i].saved

\* C6: once the guard has processed the change to another video (the
\* recorded address is the current one) and nothing is pending, no captured
\* frame in the strip was captured at another video's address.
C6_NoCarryOver ==
    (micro = <<>> /\ isWatchUrl(location) /\ metaData.href = location) =>
        \A i \in 1..Len(Children) :
            Children[i].kind = "frame" => Children[i].vid = location[2]

\* C7: a guard run on a watch URL with the recorded address different from
\* the current one and seekingByScript false removes the strip container,
\* sets every present overlay element to shown and records the current
\* address, all in that step.
C7_RealNavigation ==
    [][(GuardStep /\ last'.watch /\ last'.changed /\ ~last'.flagged) =>
        /\ ~strip'.exists
        /\ \A i \in 1..NumOverlays : ui[i] # "absent" => ui'[i] = "shown"
        /\ metaData'.href = location]_vars

\* C8: onUrlChange runs once per address change: a guard run at an address
\* where it has already run performs no teardown.
C8_TeardownOnce ==
    [][(GuardStep /\ last'.tore) => ~tornHere]_vars

\* C9 as stated: whenever the guard runs with seekingByScript set, strip and
\* UI visibility stay, the recorded address becomes the current one and the
\* flag is cleared.
C9_FlaggedAnyPage ==
    [][(GuardStep /\ last'.flagged) =>
        /\ strip' = strip
        /\ ui' = ui
        /\ metaData'.href = location
        /\ ~metaData'.seekingByScript]_vars

\* C9 amended: whenever the guard runs on a watch URL with seekingByScript
\* set, strip and UI visibility stay, no teardown runs, the recorded address
\* becomes the current one and the flag is cleared; a guard run that finds
\* the recorded address equal to the current one and the flag clear (the
\* following batch) performs no teardown.
C9_FlaggedOnWatch ==
    [][/\ (GuardStep /\ last'.flagged /\ last'.watch) =>
            /\ strip' = strip
            /\ ui' = ui
            /\ ~last'.tore
            /\ metaData'.href = location
            /\ ~metaData'.seekingByScript
       /\ (GuardStep /\ ~last'.flagged /\ ~last'.changed) =>
            (~last'.tore /\ ~metaData'.seekingByScript)]_vars

\* C9 witness: the guard has just acknowledged a timestamp click that changed
\* the address, and the strip with its entries is still there.
C9_Witness ==
    /\ last.op = "doAfterMutation"
    /\ last.flagged /\ last.watch /\ last.changed
    /\ strip.exists /\ Len(Children) > 0
    /\ ~metaData.seekingByScript
    /\ metaData.href = location /\ location[3] # NoT

\* C10: a guard run that finds the current address equal to the recorded
\* one leaves the strip (container and entries) and the UI visibility as
\* they were.
C10_UnchangedAddress ==
    [][(GuardStep /\ metaData.href = location) =>
        (strip' = strip /\ ui' = ui)]_vars

\* C10 witness: the guard ran at an unchanged address over a strip with
\* entries while the overlays were hidden.
C10_Witness ==
    /\ last.op = "doAfterMutation"
    /\ ~last.changed /\ ~last.flagged
    /\ strip.exists /\ Len(Children) > 0
    /\ ui[1] = "hidden"

\* C11: the teardown path run while no strip container exists raises no
\* error, creates no strip and leaves everything but the UI visibility and
\* the metadata (with its thumbnail request) as it was.
C11_TeardownNoStrip ==
    [][(GuardStep /\ last'.tore /\ ~strip.exists) =>
        /\ ~last'.err
        /\ strip' = strip
        /\ location' = location
        /\ currentTime' = currentTime
        /\ timers' = timers
        /\ waiters' = waiters
        /\ nreq' = nreq]_vars

ToggleStep == last'.op = "toggle" /\ ~last'.ignored

RestoreStep == GuardStep /\ last'.tore

Present(u) == { i \in DOMAIN u : u[i] # "absent" }

UniformUI(u) == \A i, j \in Present(u) : u[i] = u[j]

\* C12: whichever overlay elements are absent, the reference element
\* included, a run of toggleUIVisibility (key 'p', or the guard's restore)
\* raises no error and leaves all present overlay elements with one and the
\* same display value.
C12_AbsentSkipped ==
    [][(ToggleStep \/ RestoreStep) => (~last'.err /\ UniformUI(ui'))]_vars

\* C13 as stated: a toggle with the reference element displayed (display
\* anything but "none") hides all present overlay elements, a toggle with it
\* at "none" shows them all; two consecutive toggles from a uniform state
\* return to that state.
C13_ToggleFlips ==
    [][/\ (ToggleStep /\ ui[1] # "absent") =>
            IF ui[1] # "hidden"
            THEN \A i \in Present(ui) : ui'[i] = "hidden"
            ELSE \A i \in Present(ui) : ui'[i] = "shown"
       /\ (/\ last.op = "toggle" /\ ~last.ignored /\ ~last.err
           /\ UniformUI(last.before)
           /\ ToggleStep) => ui' = last.before]_vars

\* C13 amended: a toggle with the reference element's inline display empty
\* hides all present overlay elements, a toggle with it non-empty ("none" or
\* any other value) shows them all; two consecutive toggles from a uniform
\* state of empty or of "none" displays return to that state.
C13_ToggleByInlineDisplay ==
    [][/\ (ToggleStep /\ ui[1] # "absent") =>
            /\ ~last'.err
            /\ Present(ui') = Present(ui)
            /\ IF ui[1] = "shown"
               THEN \A i \in Present(ui) : ui'[i] = "hidden"
               ELSE \A i \in Present(ui) : ui'[i] = "shown"
       /\ (/\ last.op = "toggle" /\ ~last.ignored /\ ~last.err
           /\ UniformUI(last.before)
           /\ last.before[1] \in {"shown", "hidden"}
           /\ ToggleStep) => ui' = last.before]_vars

\* C13 witness: a toggle found the reference element with a display value
\* other than "none" and empty, another element hidden, and showed them all.
C13_Witness ==
    /\ last.op = "toggle" /\ ~last.ignored /\ ~last.err
    /\ last.before[1] = "other"
    /\ \E i \in Present(last.before) : last.before[i] = "hidden"
    /\ Present(ui) = Present(last.before)
    /\ \A i \in Present(ui) : ui[i] = "shown"

\* C14: the guard's restore leaves no present overlay element hidden,
\* whatever the visibility state before (hidden, shown or mixed), and a
\* restore applied to its result changes nothing.
C14_RestoreAbsolute ==
    [][RestoreStep =>
        /\ \A i \in Present(ui) : ui'[i] # "hidden"
        /\ ~toggleThrows(ui') => toggleUIVisibility(ui', TRUE) = ui']_vars

\* C15: an entry enters the strip unsaved; while it is in the strip its
\* saved state never goes back from true to false; the mark-saved step sets
\* the saved state of its entry and changes nothing else: same entries, same
\* order, the other entries' saved state untouched, the container kept.
C15_SavedOneWay ==
    [][/\ \A j \in 1..Len(strip'.children) :
            strip'.children[j].id \notin Ids(Children) => ~strip'.children[j].saved
       /\ \A a \in Ids(Children) \cap Ids(strip'.children) :
            Children[Pos(Children, a)].saved
                => strip'.children[Pos(strip'.children, a)].saved
       /\ (last'.op = "saved" /\ ~last'.err) =>
            /\ strip'.exists
            /\ Len(strip'.children) = Len(Children)
            /\ \A j \in 1..Len(Children) :
                  /\ strip'.children[j].id = Children[j].id
                  /\ strip'.children[j].saved
                        = (Children[j].saved \/ Children[j].id = last'.id)
                  /\ strip'.children[j].kind = Children[j].kind
                  /\ strip'.children[j].vid = Children[j].vid
                  /\ strip'.children[j].sec = Children[j].sec
                  /\ strip'.children[j].copy = Children[j].copy]_vars

\* C15 witness: the save timer has just marked the second of several
\* entries, and the first one is still unsaved.
C15_Witness ==
    /\ last.op = "saved" /\ ~last.err
    /\ Len(Children) >= 2
    /\ Children[2].id = last.id /\ Children[2].saved
    /\ ~Children[1].saved

\* The strip after the step is the strip before it, but for the named control
\* of entry i, which shows its label with the pointer cursor.
SameButControl(i, field, text) ==
    /\ strip'.exists
    /\ Len(strip'.children) = Len(Children)
    /\ \A j \in 1..Len(Children) : j # i => strip'.children[j] = Children[j]
    /\ strip'.children[i][field] = Control(text, "pointer")
    /\ \A f \in DOMAIN Children[i] :
          f # field => strip'.children[i][f] = Children[i][f]

\* C16: a save whose try block raises shows "FAILED!" and a copy whose
\* clipboard write is rejected (or whose preparation throws) shows
\* "COPY FAILED!"; the control is back at its label ("Save" / "Copy") with
\* the pointer cursor; the entry stays where it is in the strip, its saved
\* state as before, and the other entries are untouched.
C16_FailureRetryReady ==
    [][/\ (last'.op = "save" /\ last'.fails) =>
            /\ last'.shown = "FAILED!"
            /\ SameButControl(last'.idx, "save", "Save")
       /\ (last'.op = "copied" /\ last'.outcome # "copied") =>
            /\ last'.shown = "COPY FAILED!"
            /\ IF last'.live
               THEN SameButControl(Pos(Children, last'.id), "copy", "Copy")
               ELSE strip' = strip]_vars

\* C16 witness: the clipboard write for the second entry of the strip was
\* rejected; the entry is still second, unsaved, and its control reads Copy.
C16_Witness ==
    /\ last.op = "copied" /\ last.outcome = "rejected" /\ last.live
    /\ Len(Children) >= 2
    /\ Children[2].id = last.id
    /\ Children[2].copy = Control("Copy", "pointer")
    /\ ~Children[2].saved

\* C17: no event handler, timer callback or promise continuation ends with
\* an uncaught exception or an unhandled rejection: the step taken last has
\* never let an error escape.
C17_NoErrorEscapes == ~last.err

\* C18: when metaData.thumbnail holds no image, the first successful capture
\* still creates the strip and its frame goes on to the strip: once strip
\* initialization has settled, the frame's container is handed to the append
\* (scheduled, or waiting for the strip element).
C18_NoThumbnailNoBlock ==
    [][(last'.op = "gsi-cont" /\ metaData.thumbnail = NoThumb) =>
        LET e == Head(micro).e
        IN  /\ ~last'.err
            /\ \/ \E k \in 1..Len(micro') :
                     micro'[k].type = "append" /\ micro'[k].e = e
               \/ \E k \in 1..Len(waiters') : waiters'[k] = e]_vars

\* C19: a strip container comes into existence only in the step of a
\* successful capture request (one made while the video reports a native
\* width above 0): no other step, and no not-ready capture, creates one.
C19_LazyCreation ==
    [][(~strip.exists /\ strip'.exists) =>
        (CaptureStep /\ ~last'.err /\ ~last'.nativeZero)]_vars

\* C20: every frame that getScreenshotImage lets through to the strip (the
\* test on frame.width passed) has a width above 0 and a height above 0,
\* whatever the native size, the displayed width and the capture mode.
C20_PositiveDims ==
    (last.op = "captureFrame" /\ last.accepted) =>
        (last.frame.width > 0 /\ last.frame.height > 0)

\* C21: whenever no append is pending (no continuation queued, no frame
\* waiting for the strip element), a strip container that exists holds at
\* least one entry.
C21_NoEmptyStrip ==
    (Quiescent /\ strip.exists) => Len(Children) >= 1

\* A duration of one to four colon-separated fields of decimal digits.
NumericFields(duration) ==
    LET split == Split(duration, ":")
    IN  /\ Len(split) \in 1..4
        /\ \A k \in 1..Len(split) :
              /\ split[k] # <<>>
              /\ \A i \in 1..Len(split[k]) : IsDigit(split[k][i])

\* The value of the k-th field from the right: 1 seconds, 2 minutes, ...
FieldValue(duration, k) ==
    LET split == Split(duration, ":")
    IN  ParseDigits(split[Len(split) + 1 - k], 0)

UnitOf(k) == <<"s", "m", "h", "d">>[k]

\* <integer><unit> of the units in `kept`, a descending sequence of unit
\* numbers, joined by single spaces.
Rendered(duration, kept) ==
    Join([i \in 1..Len(kept) |->
             NumToStr(FieldValue(duration, kept[i])) \o <<UnitOf(kept[i])>>],
         <<" ">>)

Descending(n) == [i \in 1..n |-> n + 1 - i]

\* Every unit from the highest non-zero one down to the seconds.
FromFirstNonZero(duration) ==
    LET n == Len(Split(duration, ":"))
    IN  SelectSeq(Descending(n),
                  LAMBDA k : \E j \in k..n : FieldValue(duration, j) # 0)

\* Every unit whose value is not zero.
NonZeroUnits(duration) ==
    LET n == Len(Split(duration, ":"))
    IN  SelectSeq(Descending(n), LAMBDA k : FieldValue(duration, k) # 0)

\* C26 as stated: for one to four numeric fields the result renders the
\* units from the rightmost field leftwards as s, m, h, d, without leading
\* zeros, in descending order joined by single spaces, leaving out the
\* zero-valued leading units only; "01:03:00:12" gives "1d 3h 12s"; the empty
\* input gives the empty string.
C26_LeadingZeroUnitsOmitted ==
    (last.op = "formatDurationTime") =>
        /\ NumericFields(last.duration) =>
              last.result = Rendered(last.duration, FromFirstNonZero(last.duration))
        /\ last.duration = DurationExample =>
              last.result = <<"1", "d", " ", "3", "h", " ", "1", "2", "s">>
        /\ last.duration = <<>> => last.result = <<>>

\* C26 amended: as above, but every zero-valued unit is left out, leading or
\* not; a duration with zero hours and minutes gives the seconds only.
C26_ZeroUnitsOmitted ==
    (last.op = "formatDurationTime") =>
        /\ NumericFields(last.duration) =>
              /\ last.result = Rendered(last.duration, NonZeroUnits(last.duration))
              /\ (/\ FieldValue(last.duration, 1) # 0
                  /\ \A k \in 2..Len(Split(last.duration, ":")) :
                        FieldValue(last.duration, k) = 0)
                    => last.result = NumToStr(FieldValue(last.duration, 1)) \o <<"s">>
        /\ last.duration = DurationExample =>
              last.result = <<"1", "d", " ", "3", "h", " ", "1", "2", "s">>
        /\ last.duration = <<>> => last.result = <<>>

\* C26 witness: the duration of the function's own comment was formatted,
\* its zero minutes left out between the hours and the seconds.
C26_Witness ==
    /\ last.op = "formatDurationTime"
    /\ last.duration = DurationExample
    /\ last.result = <<"1", "d", " ", "3", "h", " ", "1", "2", "s">>

\* The frame-time a name is built from: "00_00" for a missing attribute.
TimeUsed == IF last.frameTime = NoAttr \/ last.frameTime = <<>>
            THEN <<"0", "0", "_", "0", "0">> ELSE last.frameTime

\* C24: the file name is the title, " - ", the frame-time with every '_'
\* turned into '-', all of it with every whitespace character turned into
\* '_', then ".png": character by character.  "My Video" with "01_02" gives
\* "My_Video_-_01-02.png"; a missing frame-time counts as "00_00".
C24_FileName ==
    (last.op = "getImageName") =>
        LET n == Len(last.title)
            t == Len(TimeUsed)
        IN  /\ Len(last.name) = n + 3 + t + 4
            /\ \A i \in 1..n :
                  last.name[i] = IF last.title[i] \in Whitespace THEN "_"
                                 ELSE last.title[i]
            /\ SubSeq(last.name, n + 1, n + 3) = <<"_", "-", "_">>
            /\ \A i \in 1..t :
                  last.name[n + 3 + i] =
                      IF TimeUsed[i] = "_" THEN "-"
                      ELSE IF TimeUsed[i] \in Whitespace THEN "_"
                      ELSE TimeUsed[i]
            /\ SubSeq(last.name, n + 3 + t + 1, n + 3 + t + 4)
                  = <<".", "p", "n", "g">>
            /\ (last.title = TitleExample /\ last.frameTime = FrameTimeExample) =>
                  last.name = <<"M", "y", "_", "V", "i", "d", "e", "o", "_", "-",
                                "_", "0", "1", "-", "0", "2", ".", "p", "n", "g">>

\* C24 witness: a name was built for a title that holds a space, a tab and
\* an underscore, from an entry without the frame-time attribute.
C24_Witness ==
    /\ last.op = "getImageName"
    /\ last.frameTime = NoAttr
    /\ last.title = <<" ", "\t", "_">>
    /\ last.name = <<"_", "_", "_", "_", "-", "_", "0", "0", "-", "0", "0",
                     ".", "p", "n", "g">>

Contains(str, part) ==
    \E i \in 0..(Len(str) - Len(part)) : SubSeq(str, i + 1, i + Len(part)) = part

\* C25: the file name of a saved frame includes the video title, the frame's
\* timestamp and the frame's resolution (the width it was captured at).
C25_NameHasResolution ==
    (last.op = "getImageName") =>
        /\ Contains(last.name, ReplaceAll(last.title, Whitespace, "_"))
        /\ Contains(last.name, ReplaceAll(TimeUsed, {"_"}, "-"))
        /\ Contains(last.name, NumToStr(last.width))

\* ------------------------------------------------- keys and the link copy
KeyOps == {"capture", "toggle", "copylink", "key"}

\* The step is a key press taken while focus is in the search or the comment
\* input, on the watch page after the first guard run.
KeyInInput == last'.op \in KeyOps /\ last'.inInput

\* C22: a key press received while focus is in the search input or the
\* comment input changes nothing, whatever the key: no capture is started, the
\* strip and its pending work are as before, no overlay changes its display,
\* the metadata is as before and nothing is written to the clipboard.
C22_InputFocusIgnored ==
    [][KeyInInput =>
          /\ nreq' = nreq
          /\ strip' = strip
          /\ micro' = micro
          /\ waiters' = waiters
          /\ ui' = ui
          /\ metaData' = metaData
          /\ copies' = copies
          /\ (last'.op = "copylink" => ~last'.wrote)]_vars

C22_Witness ==
    /\ last.op \in KeyOps
    /\ last.inInput
    /\ strip.exists
    /\ Len(strip.children) >= 1
    /\ nreq < MaxCaptures

\* C27: whenever the copy-link command writes to the clipboard, the text is
\* the stored title, " | ", formatDurationTime of the stored duration, " | "
\* and the stored short url, in this order; with an empty short url nothing
\* is written.
C27_LinkText ==
    [][last'.op = "copylink" =>
          /\ last'.wrote =>
                last'.written = metaData'.title \o <<" ", "|", " ">>
                                \o formatDurationTime(metaData'.duration)
                                \o <<" ", "|", " ">>
                                \o <<"https://youtu.be/">>
                                \o NumToStr(metaData'.id)
          /\ metaData'.short_url = <<"", 0>> => ~last'.wrote]_vars

C27_Witness ==
    /\ last.op = "copylink"
    /\ last.wrote
    /\ metaData.title # <<>>
    /\ formatDurationTime(metaData.duration) # <<>>
    /\ formatDurationTime(metaData.duration) # metaData.duration

\* ------------------------------------------------------- timestamp click
SeekStep == last'.op = "seek"

\* The address is one pushed by a timestamp click (only those carry a t
\* parameter) that the guard has not recorded yet.
SeekPending == location[3] # NoT /\ metaData.href # location

\* C23: a click on an entry's timestamp overlay sets the playback position to
\* the entry's capture time in whole seconds and pushes the entry's address
\* with t=<seconds>s; the click leaves the strip as it was, and so does the
\* guard run that processes the next mutation batch.
C23_SeekKeepsStrip ==
    [][/\ SeekStep =>
            LET e == strip.children[last'.idx]
            IN  /\ location' = WatchUrl(e.vid, e.sec)
                /\ last'.video => currentTime' = e.sec * TicksPerSec
                /\ strip' = strip
       /\ (GuardStep /\ SeekPending) => strip' = strip]_vars

\* C28: whenever the recorded address is the current address, metaData.id is
\* the v parameter of that address and metaData.short_url is
\* "https://youtu.be/" followed by that id.
C28_MetadataFollowsVideo ==
    metaData.href = location =>
        /\ metaData.id = parseQueryParams(location).v
        /\ metaData.short_url = <<"https://youtu.be/", parseQueryParams(location).v>>

\* C29: every address change made by a timestamp click is flagged: the click
\* leaves seekingByScript set, whether or not the video element is there, and
\* a set flag is cleared by no step other than a guard run.
C29_SeekFlagged ==
    [][/\ SeekStep => metaData'.seekingByScript
       /\ (metaData.seekingByScript /\ ~metaData'.seekingByScript) => GuardStep]_vars

\* The entries of the strip that show the frame of request id.
EntriesOf(id) == { i \in 1..Len(Children) : Children[i].id = id }

\* C30: with no navigation and no removal, once nothing is pending every
\* capture request that produced a frame (width > 0) has exactly one entry in
\* the strip, the first request of the session included.
C30_CaptureGetsEntry ==
    Quiescent => \A id \in 1..nreq : Cardinality(EntriesOf(id)) = 1

\* ------------------------------------------------- the thumbnail entry
\* The thumbnail entry that request id seeded (createImageContainer numbers
\* it 0 - id) stands in the strip.
Seeded(children, id) == (0 - id) \in Ids(children)

\* No thumbnail entry stands behind another entry.
ThumbnailLeads ==
    \A i \in 1..Len(Children) : Children[i].kind = "thumb" => i = 1

\* The step appends the frame of the request that seeded the strip.
SeedingFrameAppended ==
    /\ last'.op = "append"
    /\ \E id \in 1..nreq :
          /\ Seeded(strip'.children, id)
          /\ id \in Ids(strip'.children) \ Ids(Children)

\* C31: a thumbnail entry is the first entry of its strip (it is never
\* appended behind a captured frame nor to a strip that has entries), it has
\* time 0, and the frame of the capture that created the strip is appended
\* directly behind it, as the second entry.
C31_ThumbnailFirstFrameSecond ==
    [][/\ ThumbnailLeads'
       /\ \A i \in 1..Len(strip'.children) :
             strip'.children[i].kind = "thumb" => strip'.children[i].sec = 0
       /\ SeedingFrameAppended =>
             /\ strip'.children[1].kind = "thumb"
             /\ strip'.children[2].kind = "frame"
             /\ Seeded(strip'.children, strip'.children[2].id)]_vars

\* The capture step creates the strip and seeds it with metaData.thumbnail.
SeedingStep == CaptureStep /\ last'.made /\ metaData.thumbnail # NoThumb

\* C32: when a capture creates the strip at an address the guard has
\* recorded, the image in metaData.thumbnail that seeds the strip was fetched
\* for the video of that address, whatever the order in which the pending
\* thumbnail fetches have settled.
C32_ThumbnailOfCurrentVideo ==
    [][(SeedingStep /\ metaData.href = location) =>
          metaData.thumbnail = parseQueryParams(location).v]_vars

\* ------------------------------------------------------ title resolution
\* The guard run is the teardown of a navigation that went through:
\* updateIdUrlsThumbnail has called setTitle() for the new address.
NavigationProcessed == GuardStep /\ last'.tore /\ ~last'.err

\* C33: when every title source fails at the setTitle() call of a navigation,
\* metaData.title is empty afterwards and does not hold the title of the
\* video that was left.
C33_NoTitleLeftEmpty ==
    [][(NavigationProcessed /\ page.title = <<>>) => metaData'.title = <<>>]_vars

\* ------------------------------------------------------ entry timestamp
\* The least number of characters that shows n padded to two digits.
PaddedLen(n) == IF n < 100 THEN 2 ELSE Len(NumToStr(n))

\* C34: for a capture time t the timestamp shown on the entry has exactly
\* three ':'-separated fields of digits, whose values are
\* floor(trunc(t) / 3600) (not wrapped at 24), floor((trunc(t) mod 3600) / 60)
\* and trunc(t) mod 60, each padded with zeros to two digits and no further;
\* the frame-time attribute is the same text with every ':' replaced by '_'.
C34_Timestamp ==
    last.op = "overlays" =>
        LET whole  == last.time \div TicksPerSec
            fields == Split(last.shown, ":")
            values == <<whole \div 3600, (whole % 3600) \div 60, whole % 60>>
        IN  /\ Len(fields) = 3
            /\ \A i \in 1..3 :
                  /\ \A k \in 1..Len(fields[i]) : IsDigit(fields[i][k])
                  /\ Len(fields[i]) = PaddedLen(values[i])
                  /\ ParseDigits(fields[i], 0) = values[i]
            /\ Len(last.frameTime) = Len(last.shown)
            /\ \A k \in 1..Len(last.shown) :
                  last.frameTime[k] = IF last.shown[k] = ":" THEN "_" ELSE last.shown[k]

\* C34 witness: a capture past a hundred hours, at a fraction of a second,
\* whose minutes and seconds need padding.
C34_Witness ==
    /\ last.op = "overlays"
    /\ last.time = ((100 * 60 + 1) * 60 + 2) * TicksPerSec + 1
    /\ last.shown = <<"1", "0", "0", ":", "0", "1", ":", "0", "2">>
    /\ last.frameTime = <<"1", "0", "0", "_", "0", "1", "_", "0", "2">>

\* ------------------------------------------------------- copy requests
\* C35: every copy request finishes once its platform operations have
\* succeeded or failed: an entry whose control reads "Copying..." still has
\* an operation of its copy request outstanding, whose end puts the control
\* back to "Copy".
C35_CopyFinishes ==
    \A i \in 1..Len(Children) :
        Children[i].copy = Control("Copying...", "wait") => Children[i].id \in copies

\* ------------------------------------------------- the mark-saved timer
\* C36: the mark-saved step that runs 100 ms after a save click changes the
\* clicked entry only (it is marked saved and its control is set back); when
\* that entry or the whole strip has left the page before the timer fires,
\* the step changes nothing and raises no error.
C36_DeferredMarkSaved ==
    [][last'.op = "saved" =>
          /\ ~last'.err
          /\ IF InStrip(last'.id)
             THEN /\ strip'.exists
                  /\ Len(strip'.children) = Len(Children)
                  /\ \A j \in 1..Len(Children) :
                        Children[j].id # last'.id => strip'.children[j] = Children[j]
                  /\ strip'.children[Pos(Children, last'.id)].saved
             ELSE strip' = strip /\ micro' = micro]_vars

\* ---------------------------------------------------- off the watch page
\* The step is a key press that logKey's first test turns away.
KeyTurnedAway ==
    /\ last'.op \in KeyOps
    /\ (~isWatchUrl(location) \/ metaData.href = NoHref)

\* C37: while the current address is not a watch URL, a guard run changes
\* nothing: strip, UI visibility and metadata with its seekingByScript flag
\* are as before, and no append is released; a key press off the watch page,
\* or before the recorded address is initialised, changes nothing either.
C37_OffWatchNothing ==
    [][/\ (GuardStep /\ ~isWatchUrl(location)) =>
            /\ strip' = strip
            /\ ui' = ui
            /\ metaData' = metaData
            /\ waiters' = waiters
            /\ micro' = Tail(micro)
            /\ fetches' = fetches
       /\ KeyTurnedAway =>
            /\ strip' = strip
            /\ ui' = ui
            /\ metaData' = metaData
            /\ nreq' = nreq
            /\ micro' = micro
            /\ waiters' = waiters
            /\ (last'.op = "copylink" => ~last'.wrote)]_vars

\* C37 witness: the guard has run off the watch page over a strip with an
\* entry, hidden overlays and the flag set.
C37_Witness ==
    /\ last.op = "doAfterMutation"
    /\ ~last.watch
    /\ strip.exists /\ Len(Children) >= 1
    /\ ui[1] = "hidden"
    /\ metaData.seekingByScript

\* ------------------------------------------------------ one container
\* C38: at every reachable state the page holds at most one strip container.
C38_OneContainer == strip.count <= 1

\* C38 witness: a second capture was requested while the strip of the first
\* was in the page, and its append is pending.
C38_Witness ==
    /\ last.op = "capture" /\ ~last.ignored /\ ~last.err /\ ~last.made
    /\ nreq = 2
    /\ strip.count = 1
    /\ micro # <<>>

====
